---- MODULE Spec2Model ----
(***************************************************************************)
(* A model of the AI provider selection (src/src/lib/api.ts) and of the    *)
(* OAuth token store and calendar synchronisation handlers                 *)
(* (src/server/index.ts) of Syntria.                                       *)
(*                                                                         *)
(* These specifications share the module:                                  *)
(*   Spec            the server: OAuth callbacks and one sync-calendar     *)
(*                   request, interleaved at its await points, for every   *)
(*                   request body and every outcome of the remote calls;   *)
(*   SpecConcurrent  the server with two sync-calendar requests in flight  *)
(*                   together, each for a session a callback minted;       *)
(*   SpecProvider    getAIProvider / getAIProviderWithFallback for every   *)
(*                   environment and every outcome of the Ollama probe;    *)
(*   SpecExtract     generateJSON of every provider, and the parse of the  *)
(*                   schedule generator, for every layout of the reply;    *)
(*   SpecSchedule    the schedule generator and the event mapping for      *)
(*                   every environment and every array the model returns;  *)
(*   SpecDates       the same in every time zone and hour of arrival;      *)
(*   SpecPassThrough the same for arrays whose items bring their own date  *)
(*                   or status;                                            *)
(*   SpecCalls       one provider selection beside the server with one     *)
(*                   request: every network call of the program.           *)
(***************************************************************************)
EXTENDS Integers, Sequences, FiniteSets, TLC

\* ------------------------------------------------------------------ bounds
\* Largest number of items the generated plan holds.
MaxPlan == 2
\* Number of OAuth callbacks handled in one behaviour.
MaxCallbacks == 2
\* Largest value Date.now() takes (milliseconds, abstracted).
MaxClock == 2
\* Largest value of the Math.random() suffix of a session id.
MaxRand == 1

VARIABLES
  tokenStore,       \* own properties of the tokenStore object
  oauthCred,        \* oauth2Client.credentials.access_token (0: none set)
  oauthConfigured,  \* GOOGLE_CLIENT_ID and GOOGLE_CLIENT_SECRET are set
  clock,            \* last value Date.now() returned
  cbCount,          \* OAuth callbacks handled so far
  minted,           \* session ids minted by callbacks whose exchange succeeded
  redirect,         \* the redirect the latest OAuth callback answered with
  req,              \* the sync-calendar requests, one record each
  env,              \* process.env: GROQ_API_KEY and GEMINI_API_KEY
  sel,              \* one run of getAIProvider / getAIProviderWithFallback
  px,               \* one run of generateJSON, or of the schedule generator's parse
  gen               \* one run of the schedule generator and of the event mapping

vars == <<tokenStore, oauthCred, oauthConfigured, clock, cbCount, minted,
          redirect, req, env, sel, px, gen>>

serverVars == <<tokenStore, oauthCred, oauthConfigured, clock, cbCount, minted,
                redirect, req>>

providerVars == <<env, sel>>

jsonVars == <<px>>

scheduleVars == <<gen>>

\* The sync-calendar requests of the behaviour.
Requests == DOMAIN req

\* ------------------------------------------------------ JavaScript values
\* The value of a property that is not there.
Undefined == [kind |-> "undefined", access_token |-> 0]

\* Object.prototype.constructor and the like: a function object, which has
\* no access_token property.
ProtoValue == [kind |-> "function", access_token |-> 0]

\* A credential bundle as oauth2Client.getToken returns it; access_token 0
\* stands for a bundle without an access token.
Tokens(a) == [kind |-> "tokens", access_token |-> a]

\* Session ids as the request body can carry them.
AbsentSid == [kind |-> "absent", t |-> 0, r |-> 0]
EmptySid == [kind |-> "empty", t |-> 0, r |-> 0]
BogusSid == [kind |-> "bogus", t |-> 0, r |-> 0]
ProtoSid == [kind |-> "constructor", t |-> 0, r |-> 0]

\* The property names every object literal inherits from Object.prototype.
ProtoKeys == {ProtoSid}

\* JavaScript truthiness of a session id: undefined and "" are falsy.
SidTruthy(sid) == sid.kind \notin {"absent", "empty"}

\* JavaScript truthiness of a looked-up value.
ValTruthy(v) == v.kind # "undefined"

\* tokenStore[sessionId]: own property first, then the prototype chain.
Lookup(store, sid) ==
  IF sid \in DOMAIN store THEN store[sid]
  ELSE IF sid \in ProtoKeys THEN ProtoValue
  ELSE Undefined

\* The guard `sessionId && tokenStore[sessionId]`.
HasCredential(store, sid) == SidTruthy(sid) /\ ValTruthy(Lookup(store, sid))

\* A store that would keep the first bundle written under a key.
StoreTokensOnce(store, sid, tokens) ==
  [k \in DOMAIN store \cup {sid} |->
     IF k \in DOMAIN store THEN store[k] ELSE tokens]

\* tokenStore[sessionId] = tokens
StoreTokens(store, sid, tokens) ==
  [k \in DOMAIN store \cup {sid} |-> IF k = sid THEN tokens ELSE store[k]]

\* A removal that would clear the whole store.
DeleteAllTokens(store, sid) == [k \in {} |-> Undefined]

\* delete tokenStore[sessionId]
DeleteTokens(store, sid) == [k \in DOMAIN store \ {sid} |-> store[k]]

\* `session_${Date.now()}_${Math.random().toString(36).substr(2, 9)}`
MintSessionId(now, rnd) == [kind |-> "session", t |-> now, r |-> rnd]

\* ---------------------------------------------------- the OAuth callback
\* The redirect of GET /api/auth/google/callback, with the number of
\* oauth2Client.getToken calls the callback issued.
NoRedirect == [status |-> "none", reason |-> "", session |-> AbsentSid,
               tokens |-> Undefined, seq |-> 0, exchanges |-> 0]

SuccessRedirect(sid, tokens, n) ==
  [status |-> "success", reason |-> "", session |-> sid, tokens |-> tokens,
   seq |-> n, exchanges |-> 1]

ErrorRedirect(why, n, exchanges) ==
  [status |-> "error", reason |-> why, session |-> AbsentSid,
   tokens |-> Undefined, seq |-> n, exchanges |-> exchanges]

\* The values Date.now() may return after the clock read `clock`.
Now == {t \in {clock, clock + 1} : t <= MaxClock}

\* The callback without a code: `if (!code)` redirects with error=no_code.
CallbackNoCode ==
  /\ cbCount < MaxCallbacks
  /\ cbCount' = cbCount + 1
  /\ redirect' = ErrorRedirect("no_code", cbCount + 1, 0)
  /\ UNCHANGED <<tokenStore, oauthCred, oauthConfigured, clock, minted, req>>

\* A callback that would store a bundle before it knows the exchange failed.
CallbackStoresThenFails ==
  /\ cbCount < MaxCallbacks
  /\ cbCount' = cbCount + 1
  /\ tokenStore' = StoreTokens(tokenStore, BogusSid, Undefined)
  /\ redirect' = ErrorRedirect("auth_failed", cbCount + 1, 1)
  /\ UNCHANGED <<oauthCred, oauthConfigured, clock, minted, req>>

\* getToken rejects: the catch redirects with error=auth_failed.
CallbackExchangeFails ==
  /\ cbCount < MaxCallbacks
  /\ cbCount' = cbCount + 1
  /\ redirect' = ErrorRedirect("auth_failed", cbCount + 1, 1)
  /\ UNCHANGED <<tokenStore, oauthCred, oauthConfigured, clock, minted, req>>

\* getToken resolves: a session id is minted from the clock and a random
\* number, the bundle is stored under it and the redirect carries the id.
\* The remote service issues a different access token at every exchange.
CallbackExchangeSucceeds(now, rnd, withAccess) ==
  /\ cbCount < MaxCallbacks
  /\ oauthConfigured
  /\ LET tokens == Tokens(IF withAccess THEN cbCount + 1 ELSE 0)
         sessionId == MintSessionId(now, rnd)
     IN /\ tokenStore' = StoreTokens(tokenStore, sessionId, tokens)
        /\ minted' = minted \cup {sessionId}
        /\ redirect' = SuccessRedirect(sessionId, tokens, cbCount + 1)
  /\ clock' = now
  /\ cbCount' = cbCount + 1
  /\ UNCHANGED <<oauthCred, oauthConfigured, req>>

\* ------------------------------------------- createEventsInGoogleCalendar
\* How one calendar.events.insert call may end: a response with an htmlLink,
\* a response without one, a rejection for an invalid or expired grant, any
\* other rejection.
InsertOutcomes == {"link", "nolink", "invalid_grant", "error"}

\* The messages of an error thrown by the lines before the loop (the client
\* check, setCredentials, google.calendar), which the handler inspects.
ThrowMessages == {"invalid_grant", "expired", "other"}

\* A loop that would issue the inserts of two events together.
IssueInsertTwo(q, cred) ==
  [q EXCEPT !.pc = "inserting",
            !.i = @ + 1,
            !.attempts = @ \o <<[idx |-> q.i + 1, token |-> cred,
                                 outcome |-> "pending"],
                                [idx |-> q.i + 2, token |-> cred,
                                 outcome |-> "pending"]>>]

\* calendar.events.insert for the next event: the request is authorised with
\* whatever credentials the shared oauth2Client holds when it is issued.
IssueInsert(q, cred) ==
  [q EXCEPT !.pc = "inserting",
            !.i = @ + 1,
            !.attempts = Append(@, [idx |-> q.i + 1, token |-> cred,
                                    outcome |-> "pending"])]

\* A loop body that would count every response, with or without a link.
RecordInsertCountsAll(q, outcome) ==
  [q EXCEPT !.attempts[q.i].outcome = outcome,
            !.created = IF outcome \in {"link", "nolink"} THEN @ + 1 ELSE @,
            !.eventLinks = IF outcome = "link" THEN Append(@, q.i) ELSE @]

\* A loop body that would ask for a new authorization when an insert is
\* rejected for the grant.
RecordInsertFlagsGrant(q, outcome) ==
  [q EXCEPT !.attempts[q.i].outcome = outcome,
            !.needsAuth = @ \/ outcome = "invalid_grant",
            !.created = IF outcome = "link" THEN @ + 1 ELSE @,
            !.eventLinks = IF outcome = "link" THEN Append(@, q.i) ELSE @]

\* A loop body that would issue a failed insert once more.
RecordInsertRetries(q, outcome) ==
  [q EXCEPT !.attempts[Len(q.attempts)].outcome = outcome,
            !.i = IF outcome = "error" /\ Len(q.attempts) = q.i THEN @ - 1 ELSE @,
            !.created = IF outcome = "link" THEN @ + 1 ELSE @,
            !.eventLinks = IF outcome = "link" THEN Append(@, q.i) ELSE @]

\* The body of the loop after the await: count and collect a created event;
\* the inner catch only logs.
RecordInsert(q, outcome) ==
  [q EXCEPT !.attempts[q.i].outcome = outcome,
            !.created = IF outcome = "link" THEN @ + 1 ELSE @,
            !.eventLinks = IF outcome = "link" THEN Append(@, q.i) ELSE @]

\* A loop that a failed insert would end.
LoopAbortsOnFailure(q, outcome) ==
  q.i < q.plan /\ outcome \in {"link", "nolink"}

\* `for (const event of calendarEvents)`: the loop goes on while events are
\* left, whatever the outcome of the one before.
LoopContinues(q, outcome) == q.i < q.plan

\* ------------------------------------------------ the sync-calendar handler
NewRequest ==
  [pc |-> "idle", sessionId |-> AbsentSid, plan |-> 0, tokens |-> Undefined,
   hadOwn |-> FALSE, i |-> 0, created |-> 0, eventLinks |-> <<>>,
   needsAuth |-> FALSE, response |-> "none", attempts |-> <<>>,
   error |-> "none", genCalls |-> 0,
   body |-> [strategyData |-> FALSE, customerMessages |-> FALSE]]

\* The session ids a client may send: none, "", one never issued, the name of
\* an inherited property, or one a callback minted.
SessionIds == {AbsentSid, EmptySid, BogusSid, ProtoSid} \cup minted

\* The catch of the handler: the message names an invalid or expired grant.
IsGrantError(msg) == msg \in {"invalid_grant", "expired"}

\* A choice that would ask for authorization whenever nothing was created.
RespondAuthWhenNone(q, configured) ==
  [q EXCEPT !.pc = "done",
            !.response = IF q.created > 0 THEN "created"
                         ELSE IF configured THEN "needsAuth" ELSE "oauth500"]

\* The response chosen at lines 653-719.
Respond(q, configured) ==
  [q EXCEPT !.pc = "done",
            !.response = IF q.created > 0 THEN "created"
                         ELSE IF q.needsAuth
                              THEN IF configured THEN "needsAuth" ELSE "oauth500"
                              ELSE "plan"]

\* The body of each response of the handler: its HTTP status and whether it
\* carries needsAuth, an authUrl, and the plan with its calendar events.
ResponseBody(response) ==
  CASE response = "created" ->
         [status |-> 200, needsAuth |-> FALSE, authUrl |-> FALSE, plan |-> TRUE]
    [] response = "needsAuth" ->
         [status |-> 200, needsAuth |-> TRUE, authUrl |-> TRUE, plan |-> TRUE]
    [] response = "oauth500" ->
         [status |-> 500, needsAuth |-> FALSE, authUrl |-> FALSE, plan |-> TRUE]
    [] response = "plan" ->
         [status |-> 200, needsAuth |-> FALSE, authUrl |-> FALSE, plan |-> TRUE]
    [] response = "400" ->
         [status |-> 400, needsAuth |-> FALSE, authUrl |-> FALSE, plan |-> FALSE]
    [] OTHER ->
         [status |-> 500, needsAuth |-> FALSE, authUrl |-> FALSE, plan |-> FALSE]

\* apiCall of the client: a response that is not ok is turned into a thrown
\* Error holding only its error message; an ok response is returned whole.
ApiCall(body) ==
  IF body.status = 200
  THEN [ok |-> TRUE, needsAuth |-> body.needsAuth, authUrl |-> body.authUrl,
        plan |-> body.plan]
  ELSE [ok |-> FALSE, needsAuth |-> FALSE, authUrl |-> FALSE, plan |-> FALSE]

\* A handler that would start the generation before it looks at the body.
SyncStartValidatesLate(r, sid, hasStrategy, hasMessages) ==
  /\ req[r].pc = "idle"
  /\ req' = [req EXCEPT ![r] =
               [@ EXCEPT !.pc = "generating", !.sessionId = sid,
                         !.body = [strategyData |-> hasStrategy,
                                   customerMessages |-> hasMessages],
                         !.genCalls = @ + 1]]
  /\ UNCHANGED <<tokenStore, oauthCred, oauthConfigured, clock, cbCount,
                 minted, redirect>>

\* Request validation (a body without strategyData, or without
\* customerMessages or with none, is answered 400), then the one call of the
\* schedule generation, which is awaited.
SyncStart(r, sid, hasStrategy, hasMessages) ==
  /\ req[r].pc = "idle"
  /\ LET body == [strategyData |-> hasStrategy, customerMessages |-> hasMessages]
     IN req' = [req EXCEPT ![r] =
                  IF hasStrategy /\ hasMessages
                  THEN [@ EXCEPT !.pc = "generating", !.sessionId = sid,
                                 !.body = body, !.genCalls = @ + 1]
                  ELSE [@ EXCEPT !.pc = "done", !.sessionId = sid,
                                 !.body = body, !.response = "400"]]
  /\ UNCHANGED <<tokenStore, oauthCred, oauthConfigured, clock, cbCount,
                 minted, redirect>>

\* Why generateScheduleFromStrategyAndChat may throw: no GEMINI_API_KEY, a
\* rejected generateContent call, a reply JSON.parse rejects, a parsed reply
\* that is no array (plan.map is not a function).
GenerateFailures == {"no_api_key", "ai_error", "parse_error", "not_array"}

\* A handler that would answer a failed generation with a built-in plan.
GenerateFallsBack(r, why) ==
  /\ req[r].pc = "generating"
  /\ req' = [req EXCEPT ![r] = [@ EXCEPT !.pc = "done", !.response = "plan",
                                         !.plan = MaxPlan, !.error = why]]
  /\ UNCHANGED <<tokenStore, oauthCred, oauthConfigured, clock, cbCount,
                 minted, redirect>>

\* generateScheduleFromStrategyAndChat throws: the catch of the handler
\* answers 500 with the message of the error.
GenerateFails(r, why) ==
  /\ req[r].pc = "generating"
  /\ req' = [req EXCEPT ![r] = [@ EXCEPT !.pc = "done", !.response = "500",
                                         !.error = why]]
  /\ UNCHANGED <<tokenStore, oauthCred, oauthConfigured, clock, cbCount,
                 minted, redirect>>

\* The plan of n items arrives and no credential is found: needsAuth.
SyncNoCredential(r, n) ==
  /\ req[r].pc = "generating"
  /\ ~HasCredential(tokenStore, req[r].sessionId)
  /\ req' = [req EXCEPT ![r] =
               Respond([@ EXCEPT !.plan = n, !.needsAuth = TRUE,
                                 !.hadOwn = req[r].sessionId \in DOMAIN tokenStore],
                       oauthConfigured)]
  /\ UNCHANGED <<tokenStore, oauthCred, oauthConfigured, clock, cbCount,
                 minted, redirect>>

\* The plan arrives, a value is found under the session id, and it has no
\* access_token: nothing is attempted and needsAuth stays false.
SyncNoAccessToken(r, n) ==
  /\ req[r].pc = "generating"
  /\ HasCredential(tokenStore, req[r].sessionId)
  /\ Lookup(tokenStore, req[r].sessionId).access_token = 0
  /\ req' = [req EXCEPT ![r] =
               Respond([@ EXCEPT !.plan = n,
                                 !.tokens = Lookup(tokenStore, req[r].sessionId),
                                 !.hadOwn = req[r].sessionId \in DOMAIN tokenStore],
                       oauthConfigured)]
  /\ UNCHANGED <<tokenStore, oauthCred, oauthConfigured, clock, cbCount,
                 minted, redirect>>

\* The plan arrives and the bundle has an access token:
\* createEventsInGoogleCalendar sets it on the shared client and issues the
\* first insert (or returns at once for an empty plan).
SyncBeginCreate(r, n) ==
  /\ req[r].pc = "generating"
  /\ HasCredential(tokenStore, req[r].sessionId)
  /\ Lookup(tokenStore, req[r].sessionId).access_token # 0
  /\ LET tokens == Lookup(tokenStore, req[r].sessionId)
         q == [req[r] EXCEPT !.plan = n, !.tokens = tokens,
                             !.hadOwn = req[r].sessionId \in DOMAIN tokenStore]
     IN /\ oauthCred' = tokens.access_token
        /\ req' = [req EXCEPT ![r] =
                     IF n = 0 THEN Respond(q, oauthConfigured)
                     ELSE IssueInsert(q, tokens.access_token)]
  /\ UNCHANGED <<tokenStore, oauthConfigured, clock, cbCount, minted, redirect>>

\* The lines before the loop throw: createEventsInGoogleCalendar rethrows and
\* the handler's catch removes the credential when the message names the grant.
SyncCreateThrows(r, n, msg) ==
  /\ req[r].pc = "generating"
  /\ HasCredential(tokenStore, req[r].sessionId)
  /\ Lookup(tokenStore, req[r].sessionId).access_token # 0
  /\ LET q == [req[r] EXCEPT !.plan = n,
                             !.tokens = Lookup(tokenStore, req[r].sessionId),
                             !.hadOwn = req[r].sessionId \in DOMAIN tokenStore]
     IN IF IsGrantError(msg)
        THEN /\ tokenStore' = DeleteTokens(tokenStore, req[r].sessionId)
             /\ req' = [req EXCEPT ![r] =
                          Respond([q EXCEPT !.needsAuth = TRUE], oauthConfigured)]
        ELSE /\ tokenStore' = tokenStore
             /\ req' = [req EXCEPT ![r] = Respond(q, oauthConfigured)]
  /\ UNCHANGED <<oauthCred, oauthConfigured, clock, cbCount, minted, redirect>>

\* An insert call ends: its result is recorded and the next insert is issued
\* with the credentials the shared client holds now, or the handler answers.
InsertReturns(r, outcome) ==
  /\ req[r].pc = "inserting"
  /\ LET q == RecordInsert(req[r], outcome)
     IN req' = [req EXCEPT ![r] =
                  IF LoopContinues(q, outcome) THEN IssueInsert(q, oauthCred)
                  ELSE Respond(q, oauthConfigured)]
  /\ UNCHANGED <<tokenStore, oauthCred, oauthConfigured, clock, cbCount,
                 minted, redirect>>

\* -------------------------------------------------- provider selection
\* The values an API key variable of process.env may have.
KeyValues == {"unset", "empty", "key"}

\* `if (process.env.X)`: an unset or empty variable is falsy.
Configured(k) == k \notin {"unset", "empty"}

\* How axios.get(`${baseUrl}/api/tags`, {timeout: 2000}) may end.
ProbeOutcomes == {"up", "refused", "timeout", "http_error"}

\* The prompts generateText is called with.
Prompts == {"", "hello", "plan 14 days"}

\* OllamaProvider.isAvailable: true when the request resolves, false when it
\* rejects for any reason; it never throws.
IsAvailable(outcome) == outcome = "up"

Selected(p) == [provider |-> p, error |-> "none"]
NoProvider == [provider |-> "none", error |-> "no_provider"]

\* A selection that would try Gemini before Groq.
GetAIProviderGeminiFirst(outcome, groqKey, geminiKey) ==
  IF IsAvailable(outcome) THEN Selected("ollama")
  ELSE IF Configured(geminiKey) THEN Selected("gemini")
  ELSE IF Configured(groqKey) THEN Selected("groq")
  ELSE NoProvider

\* A selection that would prefer a configured cloud key to the local daemon.
GetAIProviderCloudFirst(outcome, groqKey, geminiKey) ==
  IF Configured(groqKey) THEN Selected("groq")
  ELSE IF IsAvailable(outcome) THEN Selected("ollama")
  ELSE IF Configured(geminiKey) THEN Selected("gemini")
  ELSE NoProvider

\* getAIProvider after the probe: Ollama, then Groq, then Gemini, else throw.
GetAIProvider(outcome, groqKey, geminiKey) ==
  IF IsAvailable(outcome) THEN Selected("ollama")
  ELSE IF Configured(groqKey) THEN Selected("groq")
  ELSE IF Configured(geminiKey) THEN Selected("gemini")
  ELSE NoProvider

\* A fallback whose catch would let the error through.
GetAIProviderRethrows(outcome, groqKey, geminiKey) ==
  GetAIProvider(outcome, groqKey, geminiKey)

\* getAIProviderWithFallback: the catch returns a MockProvider.
GetAIProviderWithFallback(outcome, groqKey, geminiKey) ==
  LET got == GetAIProvider(outcome, groqKey, geminiKey)
  IN IF got.error # "none" THEN Selected("mock") ELSE got

\* MockProvider.generateText: the fixed demo text, for every prompt.
MockGenerateText(prompt) == [ok |-> TRUE, text |-> "demo response"]

IdleSelection ==
  [pc |-> "idle", mode |-> "strict", probe |-> "none", calls |-> <<>>,
   provider |-> "none", error |-> "none", prompt |-> "",
   reply |-> [ok |-> FALSE, text |-> ""]]

\* getAIProvider or getAIProviderWithFallback is called: the Ollama probe is
\* issued and awaited.
SelectStart(mode) ==
  /\ sel.pc = "idle"
  /\ sel' = [sel EXCEPT !.pc = "probing", !.mode = mode,
                        !.calls = Append(@, "ollama_tags")]
  /\ UNCHANGED <<env>>

\* The probe ends and the selection runs to its result.
ProbeReturns(outcome) ==
  /\ sel.pc = "probing"
  /\ LET got == IF sel.mode = "strict"
                THEN GetAIProvider(outcome, env.groq, env.gemini)
                ELSE GetAIProviderWithFallback(outcome, env.groq, env.gemini)
     IN sel' = [sel EXCEPT !.pc = "selected", !.probe = outcome,
                           !.provider = got.provider, !.error = got.error]
  /\ UNCHANGED <<env>>

\* generateText on the MockProvider the lenient selection returned.
MockGenerate(prompt) ==
  /\ sel.pc = "selected"
  /\ sel.provider = "mock"
  /\ sel' = [sel EXCEPT !.pc = "generated", !.prompt = prompt,
                        !.reply = MockGenerateText(prompt)]
  /\ UNCHANGED <<env>>

\* ------------------------------------------------- parsing model replies
\* A text is a sequence of tokens: "FENCE" is three backquotes, "json" and
\* "js" are language tags, "NL" and "SP" are a newline and a space, "x" is a word of
\* prose, "1" is a JSON number and "k:" is a JSON key with its colon.
IsSpace(tok) == tok \in {"NL", "SP"}

\* The tokens of a text from position a to position b.
Slice(text, a, b) == SubSeq(text, a, b)

\* String.prototype.trim: white space is removed at both ends.
RECURSIVE TrimLeft(_)
TrimLeft(text) ==
  IF text # <<>> /\ IsSpace(Head(text)) THEN TrimLeft(Tail(text)) ELSE text

RECURSIVE TrimRight(_)
TrimRight(text) ==
  IF text # <<>> /\ IsSpace(text[Len(text)])
  THEN TrimRight(Slice(text, 1, Len(text) - 1))
  ELSE text

Trim(text) == TrimRight(TrimLeft(text))

\* jsonText.startsWith(FENCE + 'json')
StartsWithJsonFence(text) ==
  Len(text) >= 2 /\ text[1] = "FENCE" /\ text[2] = "json"

\* jsonText.startsWith(FENCE)
StartsWithFence(text) == Len(text) >= 1 /\ text[1] = "FENCE"

\* replace(/FENCE json\n?/g, ''): every fence with the json tag goes, with the
\* newline after it.
RECURSIVE RemoveJsonFences(_)
RemoveJsonFences(text) ==
  IF text = <<>> THEN <<>>
  ELSE IF StartsWithJsonFence(text)
       THEN IF Len(text) >= 3 /\ text[3] = "NL"
            THEN RemoveJsonFences(Slice(text, 4, Len(text)))
            ELSE RemoveJsonFences(Slice(text, 3, Len(text)))
       ELSE <<Head(text)>> \o RemoveJsonFences(Tail(text))

\* replace(/FENCE\n?/g, ''): every fence goes, with the newline after it.
RECURSIVE RemoveFences(_)
RemoveFences(text) ==
  IF text = <<>> THEN <<>>
  ELSE IF text[1] = "FENCE"
       THEN IF Len(text) >= 2 /\ text[2] = "NL"
            THEN RemoveFences(Slice(text, 3, Len(text)))
            ELSE RemoveFences(Tail(text))
       ELSE <<Head(text)>> \o RemoveFences(Tail(text))

\* replace(/FENCE\n?$/g, ''): a fence that ends the text goes, with the newline
\* after it.
RemoveLastFence(text) ==
  LET n == Len(text)
  IN IF n >= 1 /\ text[n] = "FENCE" THEN Slice(text, 1, n - 1)
     ELSE IF n >= 2 /\ text[n] = "NL" /\ text[n - 1] = "FENCE"
          THEN Slice(text, 1, n - 2)
          ELSE text

\* The fence stripping every parsing stage starts with.
StripFences(text) ==
  LET jsonText == Trim(text)
  IN IF StartsWithJsonFence(jsonText)
     THEN RemoveLastFence(RemoveJsonFences(jsonText))
     ELSE IF StartsWithFence(jsonText)
          THEN RemoveLastFence(RemoveFences(jsonText))
          ELSE jsonText

\* JSON.parse as a recogniser over the tokens: stack holds the open brackets,
\* st what may come next. The result is whether the text is one JSON value.
RECURSIVE JsonScan(_, _, _, _)
JsonScan(text, i, stack, st) ==
  IF i > Len(text) THEN st = "after" /\ stack = <<>>
  ELSE LET tok == text[i]
           closed == IF Len(stack) = 0 THEN <<>>
                     ELSE Slice(stack, 1, Len(stack) - 1)
           top == IF Len(stack) = 0 THEN "" ELSE stack[Len(stack)]
       IN IF IsSpace(tok) THEN JsonScan(text, i + 1, stack, st)
          ELSE IF st \in {"value", "valueOrClose"} /\ tok = "1"
               THEN JsonScan(text, i + 1, stack, "after")
          ELSE IF st \in {"value", "valueOrClose"} /\ tok = "["
               THEN JsonScan(text, i + 1, Append(stack, "["), "valueOrClose")
          ELSE IF st \in {"value", "valueOrClose"} /\ tok = "{"
               THEN JsonScan(text, i + 1, Append(stack, "{"), "keyOrClose")
          ELSE IF st \in {"key", "keyOrClose"} /\ tok = "k:"
               THEN JsonScan(text, i + 1, stack, "value")
          ELSE IF st \in {"valueOrClose", "after"} /\ tok = "]" /\ top = "["
               THEN JsonScan(text, i + 1, closed, "after")
          ELSE IF st \in {"keyOrClose", "after"} /\ tok = "}" /\ top = "{"
               THEN JsonScan(text, i + 1, closed, "after")
          ELSE IF st = "after" /\ tok = "," /\ top = "["
               THEN JsonScan(text, i + 1, stack, "value")
          ELSE IF st = "after" /\ tok = "," /\ top = "{"
               THEN JsonScan(text, i + 1, stack, "key")
          ELSE FALSE

\* The value a JSON text denotes: its tokens without the white space.
Canonical(text) == SelectSeq(text, LAMBDA tok : ~IsSpace(tok))

\* JSON.parse(text): the value, or a thrown SyntaxError.
JsonParse(text) ==
  IF JsonScan(text, 1, <<>>, "value")
  THEN [ok |-> TRUE, value |-> Canonical(text)]
  ELSE [ok |-> FALSE, value |-> <<>>]

\* A match that would stop at the first closing brace.
RegexMatchLazy(text) ==
  LET opens == {i \in 1..Len(text) : text[i] = "{"}
      a == IF opens = {} THEN 0
           ELSE CHOOSE i \in opens : \A j \in opens : i <= j
      closes == {i \in 1..Len(text) : text[i] = "}" /\ i > a}
  IN IF a = 0 \/ closes = {} THEN [found |-> FALSE, span |-> <<>>]
     ELSE [found |-> TRUE,
           span |-> Slice(text, a, CHOOSE i \in closes : \A j \in closes : i <= j)]

\* jsonText.match(/\{[\s\S]*\}/): from the first opening brace that has a
\* closing brace after it to the last closing brace of the text.
RegexMatch(text) ==
  LET closes == {i \in 1..Len(text) : text[i] = "}"}
      b == IF closes = {} THEN 0
           ELSE CHOOSE i \in closes : \A j \in closes : j <= i
      opens == {i \in 1..Len(text) : text[i] = "{" /\ i < b}
  IN IF opens = {} THEN [found |-> FALSE, span |-> <<>>]
     ELSE [found |-> TRUE,
           span |-> Slice(text, CHOOSE i \in opens : \A j \in opens : i <= j, b)]

\* The results of a parsing stage.
Parsed(value) == [ok |-> TRUE, value |-> value, error |-> "none", carries |-> <<>>]
Thrown(error) == [ok |-> FALSE, value |-> <<>>, error |-> error, carries |-> <<>>]

\* The parsing stage of OllamaProvider, GroqProvider and GeminiProvider
\* generateJSON: strip the fences, parse, and on failure parse what the
\* regular expression matches; that second JSON.parse is guarded by nothing.
ProviderExtractJSON(text) ==
  LET jsonText == StripFences(text)
      direct == JsonParse(jsonText)
      jsonMatch == RegexMatch(jsonText)
      second == JsonParse(jsonMatch.span)
  IN IF direct.ok THEN Parsed(direct.value)
     ELSE IF jsonMatch.found
          THEN IF second.ok THEN Parsed(second.value) ELSE Thrown("SyntaxError")
          ELSE Thrown("FailedToParse")

\* The parsing stage of generateScheduleFromStrategyAndChat: strip the fences
\* and parse; the catch rethrows.
ScheduleExtractJSON(text) ==
  LET direct == JsonParse(StripFences(text))
  IN IF direct.ok THEN Parsed(direct.value) ELSE Thrown("SyntaxError")

\* The JSON values a reply may hold, and two contents that are not JSON.
JsonObjects ==
  { <<"{", "}">>,
    <<"{", "k:", "1", "}">>,
    <<"{", "k:", "[", "1", "]", "}">>,
    <<"{", "k:", "{", "k:", "1", "}", "}">> }

JsonArrays ==
  { <<"[", "]">>,
    <<"[", "1", "]">>,
    <<"[", "{", "k:", "1", "}", ",", "{", "k:", "1", "}", "]">> }

JsonValues == JsonObjects \cup JsonArrays \cup {<<"1">>}

Contents == JsonValues \cup {<<"{", "x", "}">>, <<"x">>}

\* The ways a model lays its reply out around the content.
FenceWraps == {"fence_json", "fence_json_tight", "fence_json_padded",
               "fence_other", "fence_plain", "fence_plain_tight"}

ProseWraps == {"prose_before", "prose_after", "prose_both", "prose_fenced"}

Wraps == {"bare"} \cup FenceWraps \cup ProseWraps \cup {"two_spans"}

Wrap(wrap, content) ==
  CASE wrap = "bare" -> content
    [] wrap = "fence_json" ->
         <<"FENCE", "json", "NL">> \o content \o <<"NL", "FENCE">>
    [] wrap = "fence_json_tight" ->
         <<"FENCE", "json">> \o content \o <<"FENCE">>
    [] wrap = "fence_json_padded" ->
         <<"NL", "FENCE", "json", "NL">> \o content \o <<"NL", "FENCE", "NL">>
    [] wrap = "fence_other" ->
         <<"FENCE", "js", "NL">> \o content \o <<"NL", "FENCE">>
    [] wrap = "fence_plain" ->
         <<"FENCE", "NL">> \o content \o <<"NL", "FENCE">>
    [] wrap = "fence_plain_tight" ->
         <<"FENCE">> \o content \o <<"FENCE">>
    [] wrap = "prose_before" -> <<"x", "SP">> \o content
    [] wrap = "prose_after" -> content \o <<"SP", "x">>
    [] wrap = "prose_both" -> <<"x", "SP">> \o content \o <<"SP", "x">>
    [] wrap = "prose_fenced" ->
         <<"x", "NL", "FENCE", "json", "NL">> \o content \o <<"NL", "FENCE">>
    [] wrap = "two_spans" -> content \o <<"SP", "x", "SP">> \o content

\* What generateText is called with: the caller's prompt, and whether the
\* sentence 'Return ONLY valid JSON, no markdown or extra text.' follows it.
TextCall(prompt, jsonOnly) == [prompt |-> prompt, jsonOnly |-> jsonOnly]

\* OllamaProvider and GroqProvider append the sentence to the prompt;
\* GeminiProvider passes the prompt on as it is.
AppendsInstruction(source) == source \in {"ollama", "groq"}

\* The object MockProvider.generateJSON returns.
MockObject == <<"{", "k:", "1", "}">>

Sources == {"ollama", "groq", "gemini", "mock", "schedule"}

IdleParse ==
  [pc |-> "idle", source |-> "none", prompt |-> "", textCalls |-> <<>>,
   wrap |-> "none", content |-> <<>>, text |-> <<>>, failure |-> "none",
   result |-> Thrown("none")]

\* The parsing stage each source runs on the reply.
ExtractJSON(source, text) ==
  IF source = "schedule" THEN ScheduleExtractJSON(text)
  ELSE ProviderExtractJSON(text)

\* generateJSON(prompt) of a provider is called: the real providers call
\* generateText and await it, MockProvider returns its object at once.
GenerateJSONStart(source, prompt) ==
  /\ px.pc = "idle"
  /\ source \in Sources \ {"schedule"}
  /\ px' = IF source = "mock"
           THEN [px EXCEPT !.pc = "done", !.source = source, !.prompt = prompt,
                           !.result = Parsed(MockObject)]
           ELSE [px EXCEPT !.pc = "awaiting", !.source = source,
                           !.prompt = prompt,
                           !.textCalls = <<TextCall(prompt,
                                                    AppendsInstruction(source))>>]

\* generateScheduleFromStrategyAndChat sends its prompt with
\* model.generateContent and awaits the reply.
ScheduleGenerateStart(prompt) ==
  /\ px.pc = "idle"
  /\ px' = [px EXCEPT !.pc = "awaiting", !.source = "schedule",
                      !.prompt = prompt]

\* The model replies with a text, which the caller parses.
TextReturns(wrap, content) ==
  /\ px.pc = "awaiting"
  /\ LET text == Wrap(wrap, content)
     IN px' = [px EXCEPT !.pc = "done", !.wrap = wrap, !.content = content,
                         !.text = text,
                         !.result = ExtractJSON(px.source, text)]

\* How the request to the model may fail: the connection is refused, the
\* request times out, the service answers 401 or another error status.
TextFailures == {"refused", "timeout", "401", "500"}

\* The message of the error each generateText throws for a failure: Ollama
\* tells a refused connection from the rest, Groq a 401 from the rest,
\* Gemini wraps every failure alike; the schedule generator throws the
\* error of the SDK on.
TextError(source, failure) ==
  CASE source = "ollama" ->
         IF failure = "refused" THEN "Ollama is not running" ELSE "Ollama error"
    [] source = "groq" ->
         IF failure = "401" THEN "Invalid Groq API key" ELSE "Groq error"
    [] source = "gemini" -> "Gemini error"
    [] OTHER -> "SDK error"

\* The call to the model fails: generateText throws its error, which
\* generateJSON lets through.
TextFails(failure) ==
  /\ px.pc = "awaiting"
  /\ px' = [px EXCEPT !.pc = "done", !.failure = failure,
                      !.result = Thrown(TextError(px.source, failure))]

\* ------------------------------------------- dates of the generated plan
\* Time is counted in hours since 00:00 UTC of day 0. A time zone is its
\* offset from UTC in hours and at most one daylight-saving transition:
\* from the instant dstAt on, the offset is off + shift (dstAt 0: none).
Zone(off, dstAt, shift) == [off |-> off, dstAt |-> dstAt, shift |-> shift]

\* The offset of the zone at an instant.
OffsetAt(zone, t) ==
  IF zone.dstAt # 0 /\ t >= zone.dstAt THEN zone.off + zone.shift ELSE zone.off

\* The local wall-clock reading of an instant, in hours since local day 0.
WallClock(zone, t) == t + OffsetAt(zone, t)

\* The instant a Date holds after its local fields are set to a wall-clock
\* reading: a reading the transition repeats is taken the first time, one
\* the transition skips is taken with the offset before it.
FromWallClock(zone, wall) ==
  LET before == wall - zone.off
      after == wall - (zone.off + zone.shift)
  IN IF zone.dstAt = 0 \/ before < zone.dstAt THEN before
     ELSE IF after >= zone.dstAt THEN after
     ELSE before

\* date.setDate(date.getDate() + days)
SetDatePlus(zone, t, days) == FromWallClock(zone, WallClock(zone, t) + 24 * days)

\* date.setHours(date.getHours() + hours)
SetHoursPlus(zone, t, hours) == FromWallClock(zone, WallClock(zone, t) + hours)

\* date.toISOString().split('T')[0]: the calendar date in UTC, as a day number.
ISODate(t) == t \div 24

\* new Date(date + 'T09:00:00'): nine o'clock local time on the date.
NineLocal(zone, date) == FromWallClock(zone, 24 * date + 9)

\* The duration texts of the items, as tokens; <<>> is a missing or empty one.
Durations ==
  { <<>>,
    <<"3", "SP", "hours">>,
    <<"1", "Hour">>,
    <<"1", ".", "5", "SP", "hours">>,
    <<"half", "SP", "day">>,
    <<"18", "SP", "hours">> }

IsDigits(tok) == tok \in {"1", "3", "5", "18"}

\* parseInt of a run of digits.
ParseInt(tok) ==
  CASE tok = "1" -> 1
    [] tok = "3" -> 3
    [] tok = "5" -> 5
    [] tok = "18" -> 18

\* A token /hour/i matches at its start.
IsHourWord(tok) == tok \in {"hour", "hours", "Hour"}

\* duration.match(/(\d+)\s*hour/i): the positions of the digit runs that
\* white space alone separates from an hour word.
HourMatches(duration) ==
  {i \in 1..Len(duration) :
     /\ IsDigits(duration[i])
     /\ \E j \in (i + 1)..Len(duration) :
          /\ IsHourWord(duration[j])
          /\ \A k \in (i + 1)..(j - 1) : IsSpace(duration[k])}

\* let hours = 2
DefaultHours == 2

\* The hours the handler gives an item: the first match read as an integer,
\* 2 when the duration is missing or nothing matches.
ParseHours(duration) ==
  IF duration = <<>> \/ HourMatches(duration) = {} THEN DefaultHours
  ELSE ParseInt(duration[CHOOSE i \in HourMatches(duration) :
                           \A j \in HourMatches(duration) : i <= j])

\* An item that has no date property.
NoDate == -1

\* An item of the array the model returns: the day number and the duration
\* the model wrote, a task title, here the item's position in the array, and
\* the date and the status the model may have added of its own.
Item(task, day, duration, date, status) ==
  [task |-> task, day |-> day, duration |-> duration, date |-> date,
   status |-> status]

\* The arrays of items as the prompt asks for them.
Replies ==
  UNION {[1..n -> [day : 1..MaxPlan, duration : Durations, date : {NoDate},
                   status : {"absent"}]] : n \in 0..MaxPlan}

\* The arrays of items that may come with a date or a status of their own.
ProviderArrays ==
  UNION {[1..n -> [day : 1..MaxPlan, duration : {<<>>}, date : {NoDate, 0},
                   status : {"absent", "done"}]] : n \in 0..MaxPlan}

ReplyItems(reply) ==
  [i \in 1..Len(reply) |->
     Item(i, reply[i].day, reply[i].duration, reply[i].date, reply[i].status)]

\* A map whose spread would come last, so that the item's own date and
\* status win.
PlanItemKeepsOwn(zone, startDate, item, index) ==
  [item EXCEPT
     !.date = IF @ = NoDate THEN ISODate(SetDatePlus(zone, startDate, index))
              ELSE @,
     !.status = IF @ = "absent" THEN "planned" ELSE @]

\* plan.map((item, index) => ({...item, date, status})): the item with its
\* date and status set; the date is the start date moved on by the item's
\* index.
PlanItem(zone, startDate, item, index) ==
  [item EXCEPT !.date = ISODate(SetDatePlus(zone, startDate, index)),
               !.status = "planned"]

\* The calendar event the handler derives from a plan item.
CalendarEvent(zone, item) ==
  LET date == NineLocal(zone, item.date)
  IN [title |-> item.task, start |-> date,
      end |-> SetHoursPlus(zone, date, ParseHours(item.duration)),
      date |-> item.date]

\* The time zones of the server: UTC, a zone behind UTC and one ahead of it
\* without transition, and the zone behind UTC with its clocks going
\* forward, or back, at 02:00 local time of day 3.
Zones ==
  { Zone(0, 0, 0), Zone(-5, 0, 0), Zone(9, 0, 0),
    Zone(-5, 3 * 24 + 2 + 5, 1), Zone(-4, 3 * 24 + 2 + 4, -1) }

\* The local hours of day 1 at which the request arrives.
NowHours == {9, 19}

IdleGenerate(zone, hour, ollama) ==
  [pc |-> "idle", zone |-> zone, now |-> FromWallClock(zone, 24 + hour),
   ollama |-> ollama, backend |-> "none", error |-> "none", startDate |-> 0,
   reply |-> <<>>, plan |-> <<>>, events |-> <<>>]

\* generateScheduleFromStrategyAndChat is called: without GEMINI_API_KEY it
\* throws, with it the prompt goes to Gemini and the reply is awaited. The
\* start date is tomorrow at the present local time.
ScheduleStart ==
  /\ gen.pc = "idle"
  /\ gen' = IF ~Configured(env.gemini)
            THEN [gen EXCEPT !.pc = "failed", !.error = "no_api_key"]
            ELSE [gen EXCEPT !.pc = "awaiting", !.backend = "gemini",
                             !.startDate = SetDatePlus(gen.zone, gen.now, 1)]

\* Gemini replies with a JSON array: each item gets its date and status.
ScheduleReturns(reply) ==
  /\ gen.pc = "awaiting"
  /\ gen' = [gen EXCEPT !.pc = "planned",
                        !.reply = ReplyItems(reply),
                        !.plan = [i \in 1..Len(reply) |->
                                    PlanItem(gen.zone, gen.startDate,
                                             ReplyItems(reply)[i], i - 1)]]

\* The call or the parse fails: the error is logged and thrown again.
ScheduleThrows(why) ==
  /\ gen.pc = "awaiting"
  /\ gen' = [gen EXCEPT !.pc = "failed", !.error = why]

\* The sync-calendar handler maps the plan to calendar events.
MapCalendarEvents ==
  /\ gen.pc = "planned"
  /\ gen' = [gen EXCEPT !.pc = "mapped",
                        !.events = [i \in 1..Len(gen.plan) |->
                                      CalendarEvent(gen.zone, gen.plan[i])]]

\* ------------------------------------------------------ specifications
InitServer ==
  /\ tokenStore = [k \in {} |-> Undefined]
  /\ oauthCred = 0
  /\ clock = 1
  /\ cbCount = 0
  /\ minted = {}
  /\ redirect = NoRedirect

InitIdleParse == px = IdleParse

InitIdleGenerate == gen = IdleGenerate(Zone(0, 0, 0), 9, "refused")

InitIdleProvider ==
  /\ env = [groq |-> "unset", gemini |-> "unset"]
  /\ sel = IdleSelection

Init ==
  /\ InitServer
  /\ oauthConfigured \in BOOLEAN
  /\ req = [r \in {"A"} |-> NewRequest]
  /\ InitIdleProvider
  /\ InitIdleParse
  /\ InitIdleGenerate

Callback ==
  \/ CallbackNoCode
  \/ CallbackExchangeFails
  \/ \E now \in Now, rnd \in 0..MaxRand, withAccess \in BOOLEAN :
       CallbackExchangeSucceeds(now, rnd, withAccess)

Next ==
  \/ Callback /\ UNCHANGED <<providerVars, jsonVars, scheduleVars>>
  \/ \E r \in Requests, sid \in SessionIds, s \in BOOLEAN, m \in BOOLEAN :
       SyncStart(r, sid, s, m) /\ UNCHANGED <<providerVars, jsonVars, scheduleVars>>
  \/ \E r \in Requests, why \in GenerateFailures :
       GenerateFails(r, why) /\ UNCHANGED <<providerVars, jsonVars, scheduleVars>>
  \/ \E r \in Requests, n \in 0..MaxPlan :
       SyncNoCredential(r, n) /\ UNCHANGED <<providerVars, jsonVars, scheduleVars>>
  \/ \E r \in Requests, n \in 0..MaxPlan :
       SyncNoAccessToken(r, n) /\ UNCHANGED <<providerVars, jsonVars, scheduleVars>>
  \/ \E r \in Requests, n \in 0..MaxPlan :
       SyncBeginCreate(r, n) /\ UNCHANGED <<providerVars, jsonVars, scheduleVars>>
  \/ \E r \in Requests, n \in 0..MaxPlan, msg \in ThrowMessages :
       SyncCreateThrows(r, n, msg) /\ UNCHANGED <<providerVars, jsonVars, scheduleVars>>
  \/ \E r \in Requests, outcome \in InsertOutcomes :
       InsertReturns(r, outcome) /\ UNCHANGED <<providerVars, jsonVars, scheduleVars>>

Spec == Init /\ [][Next]_vars

\* Two requests in flight together. Each carries a well-formed body and a
\* session id a callback minted, its plan is not empty, and an insert either
\* creates the event or is rejected for the grant.
InitConcurrent ==
  /\ InitServer
  /\ oauthConfigured = TRUE
  /\ req = [r \in {"A", "B"} |-> NewRequest]
  /\ InitIdleProvider
  /\ InitIdleParse
  /\ InitIdleGenerate

NextConcurrent ==
  \/ \E now \in Now, rnd \in 0..MaxRand :
       CallbackExchangeSucceeds(now, rnd, TRUE) /\ UNCHANGED <<providerVars, jsonVars, scheduleVars>>
  \/ \E r \in Requests, sid \in minted :
       SyncStart(r, sid, TRUE, TRUE) /\ UNCHANGED <<providerVars, jsonVars, scheduleVars>>
  \/ \E r \in Requests, n \in 1..MaxPlan :
       SyncNoCredential(r, n) /\ UNCHANGED <<providerVars, jsonVars, scheduleVars>>
  \/ \E r \in Requests, n \in 1..MaxPlan :
       SyncBeginCreate(r, n) /\ UNCHANGED <<providerVars, jsonVars, scheduleVars>>
  \/ \E r \in Requests, n \in 1..MaxPlan :
       SyncCreateThrows(r, n, "invalid_grant") /\ UNCHANGED <<providerVars, jsonVars, scheduleVars>>
  \/ \E r \in Requests, outcome \in {"link", "invalid_grant"} :
       InsertReturns(r, outcome) /\ UNCHANGED <<providerVars, jsonVars, scheduleVars>>

SpecConcurrent == InitConcurrent /\ [][NextConcurrent]_vars

InitProvider ==
  /\ InitServer
  /\ oauthConfigured = TRUE
  /\ req = [r \in {"A"} |-> NewRequest]
  /\ env \in [groq : KeyValues, gemini : KeyValues]
  /\ sel = IdleSelection
  /\ InitIdleParse
  /\ InitIdleGenerate

NextProvider ==
  \/ \E mode \in {"strict", "lenient"} : SelectStart(mode) /\ UNCHANGED <<serverVars, jsonVars, scheduleVars>>
  \/ \E outcome \in ProbeOutcomes : ProbeReturns(outcome) /\ UNCHANGED <<serverVars, jsonVars, scheduleVars>>
  \/ \E prompt \in Prompts : MockGenerate(prompt) /\ UNCHANGED <<serverVars, jsonVars, scheduleVars>>

SpecProvider == InitProvider /\ [][NextProvider]_vars

\* One run of generateJSON, or of the schedule generator's parse, for every
\* source, prompt and reply.
InitExtract ==
  /\ InitServer
  /\ oauthConfigured = TRUE
  /\ req = [r \in {"A"} |-> NewRequest]
  /\ InitIdleProvider
  /\ InitIdleParse
  /\ InitIdleGenerate

NextExtract ==
  \/ \E source \in Sources \ {"schedule"}, prompt \in Prompts :
       GenerateJSONStart(source, prompt) /\ UNCHANGED <<serverVars, providerVars, scheduleVars>>
  \/ \E prompt \in Prompts :
       ScheduleGenerateStart(prompt) /\ UNCHANGED <<serverVars, providerVars, scheduleVars>>
  \/ \E wrap \in Wraps, content \in Contents :
       TextReturns(wrap, content) /\ UNCHANGED <<serverVars, providerVars, scheduleVars>>
  \/ \E failure \in TextFailures :
       TextFails(failure) /\ UNCHANGED <<serverVars, providerVars, scheduleVars>>

SpecExtract == InitExtract /\ [][NextExtract]_vars

\* One run of the schedule generator for every environment and every state
\* of the local Ollama daemon, on a server in UTC.
NextSchedule ==
  \/ ScheduleStart /\ UNCHANGED <<serverVars, providerVars, jsonVars>>
  \/ \E reply \in Replies :
       ScheduleReturns(reply) /\ UNCHANGED <<serverVars, providerVars, jsonVars>>
  \/ \E why \in GenerateFailures \ {"no_api_key"} :
       ScheduleThrows(why) /\ UNCHANGED <<serverVars, providerVars, jsonVars>>
  \/ MapCalendarEvents /\ UNCHANGED <<serverVars, providerVars, jsonVars>>

InitSchedule ==
  /\ InitServer
  /\ oauthConfigured = TRUE
  /\ req = [r \in {"A"} |-> NewRequest]
  /\ env \in [groq : KeyValues, gemini : KeyValues]
  /\ sel = IdleSelection
  /\ InitIdleParse
  /\ \E ollama \in ProbeOutcomes : gen = IdleGenerate(Zone(0, 0, 0), 9, ollama)

SpecSchedule == InitSchedule /\ [][NextSchedule]_vars

\* The same run with GEMINI_API_KEY set or not, in every time zone and at
\* every hour of arrival.
InitDates ==
  /\ InitServer
  /\ oauthConfigured = TRUE
  /\ req = [r \in {"A"} |-> NewRequest]
  /\ env \in [groq : {"unset"}, gemini : {"unset", "key"}]
  /\ sel = IdleSelection
  /\ InitIdleParse
  /\ \E zone \in Zones, hour \in NowHours : gen = IdleGenerate(zone, hour, "refused")

SpecDates == InitDates /\ [][NextSchedule]_vars

\* The schedule generator for arrays whose items bring a date or a status
\* of their own.
NextPassThrough ==
  \/ ScheduleStart /\ UNCHANGED <<serverVars, providerVars, jsonVars>>
  \/ \E reply \in ProviderArrays :
       ScheduleReturns(reply) /\ UNCHANGED <<serverVars, providerVars, jsonVars>>
  \/ \E why \in GenerateFailures \ {"no_api_key"} :
       ScheduleThrows(why) /\ UNCHANGED <<serverVars, providerVars, jsonVars>>
  \/ MapCalendarEvents /\ UNCHANGED <<serverVars, providerVars, jsonVars>>

SpecPassThrough == InitDates /\ [][NextPassThrough]_vars

\* One run of the provider selection beside the server with one
\* sync-calendar request: every network call of the program is in it. The
\* request has a well-formed body and a session a callback minted, or none.
InitCalls ==
  /\ InitServer
  /\ oauthConfigured = TRUE
  /\ req = [r \in {"A"} |-> NewRequest]
  /\ InitIdleProvider
  /\ InitIdleParse
  /\ InitIdleGenerate

NextCalls ==
  \/ CallbackNoCode /\ UNCHANGED <<providerVars, jsonVars, scheduleVars>>
  \/ CallbackExchangeFails /\ UNCHANGED <<providerVars, jsonVars, scheduleVars>>
  \/ CallbackExchangeSucceeds(clock, 0, TRUE)
       /\ UNCHANGED <<providerVars, jsonVars, scheduleVars>>
  \/ \E r \in Requests, sid \in {AbsentSid} \cup minted :
       SyncStart(r, sid, TRUE, TRUE) /\ UNCHANGED <<providerVars, jsonVars, scheduleVars>>
  \/ \E r \in Requests :
       GenerateFails(r, "ai_error") /\ UNCHANGED <<providerVars, jsonVars, scheduleVars>>
  \/ \E r \in Requests, n \in 0..MaxPlan :
       SyncNoCredential(r, n) /\ UNCHANGED <<providerVars, jsonVars, scheduleVars>>
  \/ \E r \in Requests, n \in 0..MaxPlan :
       SyncBeginCreate(r, n) /\ UNCHANGED <<providerVars, jsonVars, scheduleVars>>
  \/ \E r \in Requests, outcome \in InsertOutcomes :
       InsertReturns(r, outcome) /\ UNCHANGED <<providerVars, jsonVars, scheduleVars>>
  \/ \E mode \in {"strict", "lenient"} :
       SelectStart(mode) /\ UNCHANGED <<serverVars, jsonVars, scheduleVars>>
  \/ \E outcome \in ProbeOutcomes :
       ProbeReturns(outcome) /\ UNCHANGED <<serverVars, jsonVars, scheduleVars>>

SpecCalls == InitCalls /\ [][NextCalls]_vars

\* ------------------------------------------------------------- claims
\* The number of inserts of request q that created an event.
Succeeded(q) ==
  Cardinality({k \in 1..Len(q.attempts) : q.attempts[k].outcome = "link"})

\* A step in which an OAuth callback answered.
CallbackAnswers == cbCount' # cbCount

\* C1: when a request whose session has a stored credential sees an insert
\* rejected for an invalid or expired grant while other inserts succeed, the
\* result has needsAuth = true, createdCount = the number of inserts that
\* succeeded, and the credential is gone from the token store.
C1_GrantFailureInvalidates ==
  \A r \in Requests :
    LET q == req[r]
    IN (/\ q.pc = "done"
        /\ q.hadOwn
        /\ \E k \in 1..Len(q.attempts) : q.attempts[k].outcome = "invalid_grant"
        /\ \E k \in 1..Len(q.attempts) : q.attempts[k].outcome = "link")
       => /\ q.needsAuth
          /\ q.created = Succeeded(q)
          /\ q.sessionId \notin DOMAIN tokenStore

\* C2: a request whose session id has no credential stored in the token store
\* ends with needsAuth = true and createdCount = 0, and issues no insert.
C2_NoCredentialNeedsAuth ==
  \A r \in Requests :
    LET q == req[r]
    IN (q.response \in {"created", "needsAuth", "oauth500", "plan"} /\ ~q.hadOwn)
       => /\ q.needsAuth
          /\ q.created = 0
          /\ q.attempts = <<>>

\* C3: every event of the plan is attempted exactly once, in plan order; a
\* failed insert does not stop the events after it and is only not counted.
C3_PerEventIsolation ==
  \A r \in Requests :
    LET q == req[r]
    IN /\ \A k \in 1..Len(q.attempts) : q.attempts[k].idx = k
       /\ Len(q.attempts) <= q.plan
       /\ (q.pc = "done" /\ q.attempts # <<>>) => Len(q.attempts) = q.plan
       /\ q.pc = "done" => q.created = Succeeded(q)

\* C3 witness: a finished request whose first insert failed and whose second
\* insert created its event.
C3_Witness ==
  \E r \in Requests :
    /\ req[r].pc = "done"
    /\ req[r].plan = 2
    /\ Len(req[r].attempts) = 2
    /\ req[r].attempts[1].outcome = "error"
    /\ req[r].attempts[2].outcome = "link"
    /\ req[r].created = 1

\* C4: of two requests for different sessions, every insert a request issues
\* is made with the access token of its own session.
C4_OwnTokenOnly ==
  \A r1 \in Requests, r2 \in Requests :
    (r1 # r2 /\ req[r1].sessionId # req[r2].sessionId)
    => \A k \in 1..Len(req[r1].attempts) :
         req[r1].attempts[k].token = req[r1].tokens.access_token

\* C5: the token store gains an entry only in a callback whose exchange
\* succeeded, under the session id that callback minted; a callback without a
\* code or with a failing exchange leaves the store as it was and redirects
\* with an error reason and no session.
C5_StoreOnlyOnExchange ==
  [][/\ DOMAIN tokenStore' \subseteq minted'
     /\ \A k \in DOMAIN tokenStore' :
          (k \notin DOMAIN tokenStore \/ tokenStore'[k] # tokenStore[k])
          => /\ CallbackAnswers
             /\ redirect'.status = "success"
             /\ redirect'.session = k
     /\ (CallbackAnswers /\ redirect'.status = "error")
        => /\ tokenStore' = tokenStore
           /\ redirect'.reason \in {"no_code", "auth_failed"}
           /\ redirect'.session = AbsentSid]_vars

\* C5 witness: a callback failed its exchange after another had stored a
\* credential, which is still there.
C5_Witness ==
  /\ redirect.status = "error"
  /\ redirect.reason = "auth_failed"
  /\ DOMAIN tokenStore # {}

\* C6: when the exchange succeeds, the session id of the success redirect is
\* at that moment a key of the token store bound to the bundle the exchange
\* returned, so that a sync-calendar with that id finds a credential.
C6_RedirectSessionStored ==
  [][(CallbackAnswers /\ redirect'.status = "success")
     => /\ redirect'.session \in DOMAIN tokenStore'
        /\ redirect'.tokens.kind = "tokens"
        /\ tokenStore'[redirect'.session] = redirect'.tokens
        /\ HasCredential(tokenStore', redirect'.session)]_vars

\* C6 witness: a second successful callback minted the id of the first one,
\* and the request that follows with that id found the stored credential.
C6_Witness ==
  /\ redirect.status = "success"
  /\ redirect.seq = 2
  /\ Cardinality(DOMAIN tokenStore) = 1
  /\ \E r \in Requests :
       /\ req[r].sessionId = redirect.session
       /\ req[r].hadOwn
       /\ req[r].tokens = redirect.tokens

\* C7: the id a successful callback stores under differs from every id
\* already in the token store.
C7_FreshSessionId ==
  [][(CallbackAnswers /\ redirect'.status = "success")
     => redirect'.session \notin DOMAIN tokenStore]_vars

\* A selection has returned or thrown.
SelectionDone == sel.pc \in {"selected", "generated"}

\* The variable holds a non-empty key.
KeySet(k) == k = "key"

\* C8: when the local probe succeeds, both getAIProvider and
\* getAIProviderWithFallback return the Ollama adapter, whatever cloud keys
\* are set.
C8_LocalFirst ==
  (SelectionDone /\ sel.probe = "up")
  => /\ sel.provider = "ollama"
     /\ sel.error = "none"

\* C8 witness: the lenient selection returned Ollama with both cloud keys set.
C8_Witness ==
  /\ sel.pc = "selected"
  /\ sel.mode = "lenient"
  /\ sel.probe = "up"
  /\ KeySet(env.groq)
  /\ KeySet(env.gemini)
  /\ sel.provider = "ollama"

\* C9: when the local probe fails, the selection returns the Groq adapter
\* whenever the Groq key is set, having made no call but the local probe, and
\* returns the Gemini adapter exactly when the Groq key is not set and the
\* Gemini key is.
C9_CloudOrder ==
  (SelectionDone /\ sel.probe \in {"refused", "timeout", "http_error"})
  => /\ KeySet(env.groq) => (sel.provider = "groq" /\ sel.error = "none")
     /\ sel.provider = "gemini" <=> (~KeySet(env.groq) /\ KeySet(env.gemini))
     /\ sel.calls = <<"ollama_tags">>

\* C9 witness: the probe was refused, both cloud keys are set, and the
\* selection returned Groq.
C9_Witness ==
  /\ sel.pc = "selected"
  /\ sel.probe = "refused"
  /\ KeySet(env.groq)
  /\ KeySet(env.gemini)
  /\ sel.provider = "groq"

\* No usable provider: the probe failed and neither cloud key is set.
NothingUsable == sel.probe # "up" /\ ~KeySet(env.groq) /\ ~KeySet(env.gemini)

\* C10: getAIProvider throws the no-provider error exactly when the probe
\* fails and no cloud key is set; getAIProviderWithFallback never throws and
\* returns the mock adapter in exactly those cases, and the mock adapter's
\* generateText answers every prompt.
C10_StrictAndLenient ==
  /\ (SelectionDone /\ sel.mode = "strict")
     => /\ sel.error = "no_provider" <=> NothingUsable
        /\ sel.error = "none" <=> ~NothingUsable
        /\ sel.provider # "mock"
  /\ (SelectionDone /\ sel.mode = "lenient")
     => /\ sel.error = "none"
        /\ sel.provider = "mock" <=> NothingUsable
  /\ sel.pc = "generated"
     => /\ sel.provider = "mock"
        /\ sel.reply.ok
        /\ sel.reply.text # ""

\* C10 witness: with an empty Groq key and no Gemini key the probe timed out,
\* the lenient selection returned the mock adapter, and its generateText
\* answered a prompt.
C10_Witness ==
  /\ sel.pc = "generated"
  /\ sel.mode = "lenient"
  /\ sel.probe = "timeout"
  /\ env.groq = "empty"
  /\ env.gemini = "unset"
  /\ sel.prompt = "plan 14 days"
  /\ sel.reply.ok

\* C17: when the schedule generation fails, for whatever reason, the request
\* answers with an error: no plan is produced, no insert is issued, and the
\* token store and the shared client are left as they were.
C17_GenerationFailureFails ==
  [][\A r \in Requests :
       /\ (req[r].error = "none" /\ req'[r].error # "none")
          => /\ tokenStore' = tokenStore
             /\ oauthCred' = oauthCred
       /\ req'[r].error # "none"
          => /\ req'[r].pc = "done"
             /\ req'[r].response = "500"
             /\ ~ResponseBody(req'[r].response).plan
             /\ req'[r].plan = 0
             /\ req'[r].attempts = <<>>
             /\ req'[r].created = 0]_vars

\* C17 witness: the reply of the model could not be parsed in a request whose
\* session has a stored credential with an access token.
C17_Witness ==
  \E r \in Requests :
    /\ req[r].error = "parse_error"
    /\ req[r].response = "500"
    /\ req[r].sessionId \in DOMAIN tokenStore
    /\ tokenStore[req[r].sessionId].access_token # 0

\* C18: a request that ends with no event created and needsAuth set answers
\* with a fresh authorization URL together with the plan and its calendar
\* events, and the client receives them.
C18_AuthUrlWithPlan ==
  \A r \in Requests :
    (req[r].pc = "done" /\ req[r].needsAuth /\ req[r].created = 0)
    => /\ ResponseBody(req[r].response).authUrl
       /\ ResponseBody(req[r].response).plan
       /\ ApiCall(ResponseBody(req[r].response)).plan

\* C19: created is the length of eventLinks, eventLinks holds the links of the
\* inserts that returned one, in the order the inserts were issued, and
\* created never exceeds the number of events of the plan.
C19_CreatedMatchesLinks ==
  \A r \in Requests :
    LET q == req[r]
        done == {k \in 1..Len(q.attempts) : q.attempts[k].outcome = "link"}
    IN /\ q.created = Len(q.eventLinks)
       /\ q.created <= q.plan
       /\ {q.eventLinks[j] : j \in 1..Len(q.eventLinks)} = done
       /\ \A j \in 1..Len(q.eventLinks) - 1 : q.eventLinks[j] < q.eventLinks[j + 1]

\* C19 witness: of two inserts the first returned no link and the second
\* returned one.
C19_Witness ==
  \E r \in Requests :
    /\ req[r].pc = "done"
    /\ Len(req[r].attempts) = 2
    /\ req[r].attempts[1].outcome = "nolink"
    /\ req[r].attempts[2].outcome = "link"
    /\ req[r].eventLinks = <<2>>

\* The parsing stage has answered for a reply of one of the real sources.
ParsedReply == px.pc = "done" /\ px.text # <<>>

\* C12: for every provider variant, the mock included, and every prompt,
\* generateJSON makes exactly one generateText call, whose prompt is the
\* caller's prompt followed by the return-only-JSON instruction, and returns
\* what the extractor makes of the text that call returned.
C12_OneInstructedTextCall ==
  (px.pc \in {"awaiting", "done"} /\ px.source \in Sources \ {"schedule"})
    => /\ px.textCalls = <<TextCall(px.prompt, TRUE)>>
       /\ ParsedReply => px.result = ExtractJSON(px.source, px.text)

\* C13: a reply that is a fenced block, with the json tag, another tag or no
\* tag, around a JSON object or array parses, in every provider's generateJSON
\* and in the schedule generator, to the value of the content of the block.
C13_FencedParsesAsContent ==
  (ParsedReply /\ px.wrap \in FenceWraps
     /\ px.content \in JsonObjects \cup JsonArrays)
    => /\ px.result.ok
       /\ px.result.value = px.content

C15_DedicatedParseError ==
  (ParsedReply
     /\ ~JsonParse(StripFences(px.text)).ok
     /\ ~JsonParse(RegexMatch(StripFences(px.text)).span).ok)
    => /\ ~px.result.ok
       /\ px.result.error = "FailedToParse"
       /\ px.result.carries = px.text

\* The provider getAIProvider selects in the configuration of the run.
SelectedForRun == GetAIProvider(gen.ollama, env.groq, env.gemini)

\* C11: in every configuration in which the selector yields a real provider
\* (Ollama reachable, else the Groq key, else the Gemini key), schedule
\* generation calls that provider; it does not fail for want of a key and
\* does not call another backend.
C11_UsesSelectedProvider ==
  (gen.pc # "idle" /\ SelectedForRun.error = "none")
    => /\ gen.error # "no_api_key"
       /\ gen.backend = SelectedForRun.provider

\* C16: every item of the generated plan has the date startDate + (day - 1)
\* days, day being the item's own day field, for every start date and every
\* array the provider returns.
C16_DateFollowsDay ==
  gen.pc \in {"planned", "mapped"}
    => \A i \in 1..Len(gen.plan) :
         gen.plan[i].date = ISODate(gen.startDate) + (gen.plan[i].day - 1)

\* The hours a duration text may stand for: N for 'N hours', 2 for a missing
\* text or one without hours, the count rounded either way for a fraction.
StatedHours(duration) ==
  CASE duration = <<"3", "SP", "hours">> -> {3}
    [] duration = <<"1", "Hour">> -> {1}
    [] duration = <<"18", "SP", "hours">> -> {18}
    [] duration = <<"1", ".", "5", "SP", "hours">> -> {1, 2}
    [] OTHER -> {2}

\* C20: the calendar events are derived one for one and in order from the
\* plan items, and each ends its parsed duration after it starts: N hours
\* for 'N hours', exactly 2 hours for a missing or unparseable duration.
C20_EndIsStartPlusDuration ==
  gen.pc = "mapped"
    => /\ Len(gen.events) = Len(gen.plan)
       /\ \A i \in 1..Len(gen.plan) :
            /\ gen.events[i].title = gen.plan[i].task
            /\ gen.events[i].date = gen.plan[i].date
            /\ (gen.events[i].end - gen.events[i].start)
                 \in StatedHours(gen.plan[i].duration)

\* C21: no network call is retried: the availability probe of a selection,
\* the generation call of a request, the code exchange of a callback and the
\* insert of each event are each issued at most once, whatever their outcome.
C21_NoRetry ==
  /\ Len(sel.calls) <= 1
  /\ redirect.exchanges <= 1
  /\ \A r \in Requests :
       /\ req[r].genCalls <= 1
       /\ Len(req[r].attempts) <= req[r].plan
       /\ \A a, b \in 1..Len(req[r].attempts) :
            req[r].attempts[a].idx = req[r].attempts[b].idx => a = b

C21_Witness ==
  /\ sel.pc = "selected" /\ sel.probe = "timeout" /\ sel.calls = <<"ollama_tags">>
  /\ redirect.status = "error" /\ redirect.reason = "auth_failed"
  /\ redirect.exchanges = 1
  /\ \E r \in Requests :
       /\ req[r].pc = "done"
       /\ req[r].genCalls = 1
       /\ Len(req[r].attempts) = 2
       /\ req[r].attempts[1].outcome = "error"
       /\ req[r].attempts[2].outcome = "error"

\* C22: the inserts of one request are issued one after the other: an insert
\* starts only when the one before it has ended, so a request never has two
\* inserts in flight.
C22_SequentialInserts ==
  \A r \in Requests :
    /\ \A a \in 1..Len(req[r].attempts) :
         req[r].attempts[a].outcome = "pending"
           => a = Len(req[r].attempts) /\ req[r].pc = "inserting"
    /\ \A a \in 1..Len(req[r].attempts) : req[r].attempts[a].idx = a
    /\ req[r].pc = "inserting"
         => req[r].attempts[Len(req[r].attempts)].outcome = "pending"

C22_Witness ==
  \E r \in Requests :
    /\ req[r].pc = "inserting"
    /\ Len(req[r].attempts) = 2
    /\ req[r].attempts[1].outcome = "error"
    /\ req[r].attempts[2].outcome = "pending"

\* The messages that tell the caller the provider is not there, and that
\* the key was refused.
UnavailableErrors == {"Ollama is not running"}
AuthErrors == {"Invalid Groq API key", "Invalid Gemini API key"}

\* C23: a provider failure is reported by kind: Ollama signals that it is
\* unavailable exactly when the connection is refused, and Groq and Gemini
\* signal an authentication error exactly on a 401 response, apart from the
\* generic error of every other failure.
C23_DistinctErrorKinds ==
  (px.pc = "done" /\ px.failure # "none")
    => /\ px.source = "ollama"
            => (px.result.error \in UnavailableErrors <=> px.failure = "refused")
       /\ px.source \in {"groq", "gemini"}
            => (px.result.error \in AuthErrors <=> px.failure = "401")

\* C25: when the direct parse fails, the second stage recovers a JSON array
\* as it does an object: a reply that is prose around one JSON array, an
\* array of several objects included, parses to that array.
C25_ProseAroundArray ==
  (ParsedReply /\ px.wrap \in ProseWraps /\ px.content \in JsonArrays)
    => /\ px.result.ok
       /\ px.result.value = px.content

\* C24: the schedule generator passes the provider's array through: as many
\* items, in the same order, each with the provider's fields, except that the
\* date is assigned and the status is "planned" even when the provider gave
\* a date or a status of its own.
C24_PassThrough ==
  gen.pc \in {"planned", "mapped"}
    => /\ Len(gen.plan) = Len(gen.reply)
       /\ \A i \in 1..Len(gen.reply) :
            /\ gen.plan[i].task = gen.reply[i].task
            /\ gen.plan[i].day = gen.reply[i].day
            /\ gen.plan[i].duration = gen.reply[i].duration
            /\ gen.plan[i].status = "planned"
            /\ gen.plan[i].date >= ISODate(gen.startDate)

C24_Witness ==
  /\ gen.pc = "planned"
  /\ Len(gen.reply) = 2
  /\ gen.reply[1].day = 2 /\ gen.reply[2].day = 1
  /\ gen.reply[1].status = "done" /\ gen.reply[1].date = 0
  /\ gen.plan[1].status = "planned" /\ gen.plan[1].date > 0
  /\ gen.plan[1].day = 2 /\ gen.plan[2].day = 1

\* C26: in every response of sync-calendar, needsAuth and a positive number
\* of created events exclude each other: when needsAuth is set nothing was
\* created, and when something was created the response is the success
\* shape, without needsAuth and without authUrl.
C26_NeedsAuthExcludesCreated ==
  \A r \in Requests :
    /\ ~(req[r].needsAuth /\ req[r].created > 0)
    /\ (req[r].pc = "done" /\ req[r].created > 0)
         => /\ req[r].response = "created"
            /\ ResponseBody(req[r].response).status = 200
            /\ ~ResponseBody(req[r].response).needsAuth
            /\ ~ResponseBody(req[r].response).authUrl
    /\ (req[r].pc = "done" /\ ResponseBody(req[r].response).needsAuth)
         => req[r].created = 0

C26_Witness ==
  \E r \in Requests :
    /\ req[r].pc = "done"
    /\ Len(req[r].attempts) = 2
    /\ req[r].attempts[1].outcome = "invalid_grant"
    /\ req[r].attempts[2].outcome = "link"
    /\ req[r].created = 1
    /\ req[r].response = "created"

\* C27: a sync-calendar request without strategyData, or without
\* customerMessages or with none, is answered 400 before anything else: no
\* generation call, no calendar call, and the token store as it was.
C27_InvalidBodyRejected ==
  [][\A r \in Requests :
       (req[r].pc = "idle" /\ req'[r].pc # "idle"
          /\ ~(req'[r].body.strategyData /\ req'[r].body.customerMessages))
         => /\ req'[r].pc = "done"
            /\ req'[r].response = "400"
            /\ ResponseBody(req'[r].response).status = 400
            /\ req'[r].genCalls = 0
            /\ req'[r].attempts = <<>>
            /\ tokenStore' = tokenStore
            /\ oauthCred' = oauthCred]_vars

C27_Witness ==
  \E r \in Requests :
    /\ req[r].pc = "done"
    /\ req[r].response = "400"
    /\ req[r].body.strategyData /\ ~req[r].body.customerMessages
    /\ req[r].sessionId \in DOMAIN tokenStore
    /\ tokenStore[req[r].sessionId].access_token # 0
    /\ req[r].genCalls = 0

\* C28: a sync-calendar request removes at most the token store entry of its
\* own session: no step of a request removes or alters the entry of another
\* session, or adds one.
C28_InvalidationTouchesOwnSession ==
  [][cbCount' = cbCount
       => /\ DOMAIN tokenStore' \subseteq DOMAIN tokenStore
          /\ \A k \in DOMAIN tokenStore :
               \/ k \in DOMAIN tokenStore' /\ tokenStore'[k] = tokenStore[k]
               \/ /\ k \notin DOMAIN tokenStore'
                  /\ \E r \in Requests :
                       /\ req[r].sessionId = k
                       /\ req[r].pc = "generating"
                       /\ req'[r].pc = "done"
                       /\ req'[r].needsAuth]_vars

C28_Witness ==
  \E r \in Requests :
    /\ req[r].pc = "done"
    /\ req[r].needsAuth
    /\ req[r].hadOwn
    /\ req[r].tokens.access_token # 0
    /\ req[r].sessionId \notin DOMAIN tokenStore
    /\ \E k \in DOMAIN tokenStore : tokenStore[k].access_token # 0

\* The request that has removed the credential it read.
Removed(q) ==
  q.pc = "done" /\ q.needsAuth /\ q.hadOwn /\ q.tokens.access_token # 0

\* C29: for two requests on the same session, once one of them has removed
\* the credential from the token store, no request issues an insert with the
\* access token of that credential, not even one that read the credential
\* before and is between two inserts.
C29_NoInsertAfterRemoval ==
  [][\A r \in Requests :
       Len(req'[r].attempts) > Len(req[r].attempts)
         => ~\E o \in Requests \ {r} :
               /\ Removed(req[o])
               /\ req[o].sessionId = req[r].sessionId
               /\ req'[r].attempts[Len(req'[r].attempts)].token
                    = req[o].tokens.access_token]_vars

\* C30: when a credential is stored for the session and no event is created
\* for a reason other than the grant (every insert fails with another error,
\* or the bundle has no access token), the credential stays in the token
\* store and the response is the plain plan response, without needsAuth and
\* without an authorization URL.
C30_OtherFailureKeepsCredential ==
  \A r \in Requests :
    (/\ req[r].pc = "done"
     /\ req[r].hadOwn
     /\ req[r].created = 0
     /\ \/ req[r].tokens.kind = "tokens" /\ req[r].tokens.access_token = 0
        \/ /\ Len(req[r].attempts) >= 1
           /\ \A a \in 1..Len(req[r].attempts) :
                req[r].attempts[a].outcome = "error")
      => /\ req[r].sessionId \in DOMAIN tokenStore
         /\ req[r].response = "plan"
         /\ ResponseBody(req[r].response).status = 200
         /\ ResponseBody(req[r].response).plan
         /\ ~ResponseBody(req[r].response).needsAuth
         /\ ~ResponseBody(req[r].response).authUrl
         /\ ~req[r].needsAuth

C30_Witness ==
  \E r \in Requests :
    /\ req[r].pc = "done"
    /\ req[r].hadOwn
    /\ Len(req[r].attempts) = 2
    /\ req[r].attempts[1].outcome = "error"
    /\ req[r].attempts[2].outcome = "error"
    /\ req[r].response = "plan"
    /\ tokenStore[req[r].sessionId] = req[r].tokens
====
